---- MODULE Spec2Model ----
(***************************************************************************)
(* Model of the notebook exercises/Wallis-Pi-solution.ipynb.               *)
(*                                                                         *)
(* The notebook defines w_pi(n), which accumulates the numerator and the   *)
(* denominator of Wallis' product as two Python integers and divides them  *)
(* once, in floating point, in its return statement.  A "quick test" cell  *)
(* evaluates w_pi(1000) and a plot cell maps w_pi over a swept range of n  *)
(* and plots the absolute difference to np.pi.                             *)
(*                                                                         *)
(* Python integers are unbounded, TLC's are 32 bits wide.  A Python int is *)
(* therefore modelled as its sequence of limbs, least significant first,   *)
(* in base 2^15 (the digit size CPython itself uses on 32-bit builds), and *)
(* a Python float as the pair of its 53-bit significand and its binary     *)
(* exponent.                                                               *)
(***************************************************************************)
EXTENDS Integers, Sequences, FiniteSets, TLC

(***************************************************************************)
(* Bounds of the model.                                                    *)
(***************************************************************************)
\* Largest argument a free session passes to w_pi.
MaxN == 12
\* Most negative argument a free session passes to w_pi is -MaxNeg.
MaxNeg == 2
\* Number of w_pi invocations in a free session.
MaxCalls == 2
\* Number of leading points of the plot cell's nrange that are evaluated.
SweepLen == 8

(***************************************************************************)
(* Constants of the program.                                               *)
(***************************************************************************)
\* w_pi(1000), the quick test cell.
QuickN == 1000
\* np.linspace(10,2000,20).astype(int), the plot cell.
PlotStart == 10
PlotStop == 2000
PlotNum == 20
\* Significand width of a Python float (IEEE-754 binary64).
MantDig == 53

(***************************************************************************)
(* Python int: unbounded naturals as limb sequences.                       *)
(***************************************************************************)
BASE == 2^15

Zero == <<>>
One == <<1>>

\* The limbs of a natural number that TLC can hold natively.
RECURSIVE Big(_)
Big(k) == IF k = 0 THEN <<>> ELSE <<k % BASE>> \o Big(k \div BASE)

\* The largest index in lo..hi at which s is not 0, or 0 if there is none.
RECURSIVE TopLimb(_, _, _)
TopLimb(s, lo, hi) ==
  IF lo = hi THEN (IF s[lo] # 0 THEN lo ELSE 0)
  ELSE LET mid == (lo + hi) \div 2
           r == TopLimb(s, mid + 1, hi)
       IN IF r # 0 THEN r ELSE TopLimb(s, lo, mid)

\* A limb sequence without its leading (most significant) zero limbs.
Trim(s) ==
  IF Len(s) = 0 \/ s[Len(s)] # 0 THEN s ELSE SubSeq(s, 1, TopLimb(s, 1, Len(s)))

\* Limbs 4*lo+1 .. 4*hi+4 of a * (d0 + d1*BASE) with carry-in c, and the
\* carry out.  ap is a shifted up by one limb and padded with zero limbs,
\* so that ap[k + 1] is limb k of a.
RECURSIVE MulRow(_, _, _, _, _, _)
MulRow(ap, d0, d1, lo, hi, c) ==
  IF lo = hi
  THEN LET k == 4 * lo
           v1 == ap[k + 2] * d0 + ap[k + 1] * d1 + c
           v2 == ap[k + 3] * d0 + ap[k + 2] * d1 + (v1 \div BASE)
           v3 == ap[k + 4] * d0 + ap[k + 3] * d1 + (v2 \div BASE)
           v4 == ap[k + 5] * d0 + ap[k + 4] * d1 + (v3 \div BASE)
       IN [s |-> <<v1 % BASE, v2 % BASE, v3 % BASE, v4 % BASE>>, c |-> v4 \div BASE]
  ELSE LET mid == (lo + hi) \div 2
           L == MulRow(ap, d0, d1, lo, mid, c)
           R == MulRow(ap, d0, d1, mid + 1, hi, L.c)
       IN [s |-> L.s \o R.s, c |-> R.c]

\* a * (d0 + d1*BASE) for limbs d0, d1.
Mul2(a, d0, d1) ==
  LET m == (Len(a) + 2) \div 4
      ap == <<0>> \o a \o <<0, 0, 0, 0, 0, 0>>
  IN Trim(MulRow(ap, d0, d1, 0, m, 0).s)

\* Limb k of a, zero beyond its length.
At(a, k) == IF k <= Len(a) THEN a[k] ELSE 0

\* Limbs lo..hi of a + b with carry-in c, and the carry out.
RECURSIVE AddRow(_, _, _, _, _)
AddRow(a, b, lo, hi, c) ==
  IF lo = hi
  THEN LET v == At(a, lo) + At(b, lo) + c
       IN [s |-> <<v % BASE>>, c |-> v \div BASE]
  ELSE LET mid == (lo + hi) \div 2
           L == AddRow(a, b, lo, mid, c)
           R == AddRow(a, b, mid + 1, hi, L.c)
       IN [s |-> L.s \o R.s, c |-> R.c]

\* a + b.
Add(a, b) ==
  LET m == IF Len(a) >= Len(b) THEN Len(a) ELSE Len(b)
  IN IF m = 0 THEN Zero
     ELSE LET r == AddRow(a, b, 1, m, 0)
          IN IF r.c = 0 THEN r.s ELSE Append(r.s, r.c)

\* -1, 0, 1 as a < b, a = b, a > b, deciding on limbs k, k-1, ..., 1.
RECURSIVE CmpFrom(_, _, _)
CmpFrom(a, b, k) ==
  IF k = 0 THEN 0
  ELSE IF a[k] < b[k] THEN -1
  ELSE IF a[k] > b[k] THEN 1
  ELSE CmpFrom(a, b, k - 1)

Less(a, b) ==
  IF Len(a) # Len(b) THEN Len(a) < Len(b)
  ELSE a # b /\ CmpFrom(a, b, Len(a)) < 0

Leq(a, b) == a = b \/ Less(a, b)

\* Limbs lo..hi of a - b with borrow-in c (0 or 1), and the borrow out.
RECURSIVE SubRow(_, _, _, _, _)
SubRow(a, b, lo, hi, c) ==
  IF lo = hi
  THEN LET v == At(a, lo) - At(b, lo) - c
       IN [s |-> <<v % BASE>>, c |-> IF v < 0 THEN 1 ELSE 0]
  ELSE LET mid == (lo + hi) \div 2
           L == SubRow(a, b, lo, mid, c)
           R == SubRow(a, b, mid + 1, hi, L.c)
       IN [s |-> L.s \o R.s, c |-> R.c]

\* a - b, for a >= b.
Sub(a, b) == IF Len(a) = 0 THEN Zero ELSE Trim(SubRow(a, b, 1, Len(a), 0).s)

\* a * b, two limbs of b at a time.
RECURSIVE MulBy(_, _)
MulBy(a, b) ==
  IF Len(b) = 0 THEN Zero
  ELSE IF Len(b) = 1 THEN Mul2(a, b[1], 0)
  ELSE IF Len(b) = 2 THEN Mul2(a, b[1], b[2])
  ELSE LET h == MulBy(a, SubSeq(b, 3, Len(b)))
       IN IF h = Zero THEN Zero ELSE Add(Mul2(a, b[1], b[2]), <<0, 0>> \o h)

\* a * b: the shorter operand is the one taken apart.
Mul(a, b) == IF Len(a) < Len(b) THEN MulBy(b, a) ELSE MulBy(a, b)

\* a * 2^k.
ShiftLeft(a, k) ==
  IF a = Zero THEN Zero
  ELSE [j \in 1..(k \div 15) |-> 0] \o Mul2(a, 2^(k % 15), 0)

\* Number of bits of a natural below BASE.
RECURSIVE LimbBits(_)
LimbBits(d) == IF d = 0 THEN 0 ELSE 1 + LimbBits(d \div 2)

\* int.bit_length().
BitLen(a) == IF a = Zero THEN 0 ELSE 15 * (Len(a) - 1) + LimbBits(a[Len(a)])

\* For a natural p < 2^15: v, the number made of limbs lo..hi of a, modulo p,
\* and w = BASE^(hi-lo+1) modulo p.
RECURSIVE ModRange(_, _, _, _)
ModRange(a, p, lo, hi) ==
  IF lo = hi
  THEN [v |-> a[lo] % p, w |-> BASE % p]
  ELSE LET mid == (lo + hi) \div 2
           L == ModRange(a, p, lo, mid)
           R == ModRange(a, p, mid + 1, hi)
       IN [v |-> (R.v * L.w + L.v) % p, w |-> (L.w * R.w) % p]

\* a % p for a natural p < 2^15.
ModSmall(a, p) == IF a = Zero THEN 0 ELSE ModRange(a, p, 1, Len(a)).v

(***************************************************************************)
(* Python float: [m |-> significand, e |-> exponent] stands for the value  *)
(* m * 2^(e - 52), with 2^52 <= m < 2^53 unless the value is 0.            *)
(***************************************************************************)
FloatZero == [m |-> Zero, e |-> 0]

\* What ret holds while no return expression has been evaluated.
Unset == [m |-> Zero, e |-> -1]

\* One bit of a quotient by d: st.q gains the bit, st.r is twice what is
\* left of the remainder.
DivStep(st, d) ==
  LET ge == Leq(d, st.r)
  IN [q |-> Add(Mul2(st.q, 2, 0), IF ge THEN One ELSE Zero),
      r |-> Mul2(IF ge THEN Sub(st.r, d) ELSE st.r, 2, 0)]

\* k more bits of a quotient by d (all of them 0 once nothing remains).
RECURSIVE DivBits(_, _, _)
DivBits(st, d, k) ==
  IF k = 0 THEN st
  ELSE IF st.r = Zero THEN [q |-> ShiftLeft(st.q, k), r |-> Zero]
  ELSE DivBits(DivStep(st, d), d, k - 1)

\* Mutant of TrueDiv: the quotient is cut off after 53 bits, not rounded.
TrueDivTrunc(a, b) ==
  IF a = Zero THEN FloatZero
  ELSE LET d == BitLen(a) - BitLen(b)
           a1 == IF d < 0 THEN ShiftLeft(a, -d) ELSE a
           b1 == IF d > 0 THEN ShiftLeft(b, d) ELSE b
           lt == Less(a1, b1)
           r0 == IF lt THEN Mul2(a1, 2, 0) ELSE a1
           qr == DivBits([q |-> Zero, r |-> r0], b1, MantDig)
       IN [m |-> qr.q, e |-> IF lt THEN d - 1 ELSE d]

\* int / int, Python 3 true division of a >= 0 by b > 0: the quotient
\* rounded to the nearest float, ties to the even significand.
TrueDiv(a, b) ==
  IF a = Zero THEN FloatZero
  ELSE LET d == BitLen(a) - BitLen(b)
           a1 == IF d < 0 THEN ShiftLeft(a, -d) ELSE a
           b1 == IF d > 0 THEN ShiftLeft(b, d) ELSE b
           lt == Less(a1, b1)
           e0 == IF lt THEN d - 1 ELSE d
           r0 == IF lt THEN Mul2(a1, 2, 0) ELSE a1
           qr == DivBits([q |-> Zero, r |-> r0], b1, MantDig)
           up == Less(b1, qr.r) \/ (qr.r = b1 /\ qr.q[1] % 2 = 1)
           q1 == IF up THEN Add(qr.q, One) ELSE qr.q
       IN IF BitLen(q1) > MantDig
          THEN [m |-> ShiftLeft(One, MantDig - 1), e |-> e0 + 1]
          ELSE [m |-> q1, e |-> e0]

\* Mutant of TwoTimes: the factor 2.0 is forgotten.
TwoTimesDropped(x) == x

\* 2.0 * x: exact, the exponent goes up by one.
TwoTimes(x) == IF x.m = Zero THEN x ELSE [m |-> x.m, e |-> x.e + 1]

(***************************************************************************)
(* The kernel session.                                                     *)
(*   pc   where the running invocation of w_pi stands: "idle" (none is     *)
(*        running), "for" (at the for statement), "return" (at the return  *)
(*        statement), "retval" (the return expression is evaluated)        *)
(*   n, i, num, den   the locals of the running invocation (i = 0: the     *)
(*        loop variable is not bound yet)                                  *)
(*   ret  the value of the return expression                               *)
(*   out  the completed invocations in order: argument, outcome, value     *)
(*   divs the number of divisions evaluated so far                         *)
(*   nb   the validation run of a notebook under py.test (see below)       *)
(***************************************************************************)
VARIABLES pc, n, i, num, den, ret, out, divs, nb

vars == <<pc, n, i, num, den, ret, out, divs, nb>>

\* The variables of the kernel session that runs w_pi.
wvars == <<pc, n, i, num, den, ret, out, divs>>

\* The arguments of a free session.
Args == (-MaxNeg)..MaxN

\* nrange = np.linspace(10,2000,20).astype(int)
NRange ==
  [k \in 1..PlotNum |->
     PlotStart + ((k - 1) * (PlotStop - PlotStart)) \div (PlotNum - 1)]

\* The arguments of the notebook's cells in execution order: the quick test,
\* then the plot cell's map(w_pi, nrange), cut to its first SweepLen points.
RunAll ==
  <<QuickN>> \o SubSeq(NRange, 1, IF SweepLen < PlotNum THEN SweepLen ELSE PlotNum)

\* No validation run has been started.
NbOff ==
  [phase |-> "off", mode |-> "none", sanitize |-> FALSE, book |-> "none",
   cfg |-> FALSE, cell |-> 0, run |-> <<>>, verdicts |-> <<>>]

Init ==
  /\ pc = "idle"
  /\ n = 0 /\ i = 0 /\ num = Zero /\ den = Zero
  /\ ret = Unset
  /\ out = <<>>
  /\ divs = 0
  /\ nb = NbOff

\* Mutant of Call: the argument is validated and a negative one is refused.
CallChecked(m) ==
  /\ pc = "idle"
  /\ IF m < 0
     THEN /\ out' = Append(out, [n |-> m, err |-> "InvalidArgument", val |-> Unset])
          /\ UNCHANGED <<pc, n, i, num, den, ret, divs, nb>>
     ELSE /\ pc' = "for"
          /\ n' = m /\ i' = 0
          /\ num' = One /\ den' = One
          /\ UNCHANGED <<ret, out, divs, nb>>

\* Mutant of Call: the denominator is seeded from state that outlives the
\* invocations (the number of results so far) instead of the literal 1.
CallShared(m) ==
  /\ pc = "idle"
  /\ pc' = "for"
  /\ n' = m /\ i' = 0
  /\ num' = One /\ den' = Big(1 + Len(out))
  /\ UNCHANGED <<ret, out, divs, nb>>

\* w_pi(m) is entered: num = 1; den = 1.
Call(m) ==
  /\ pc = "idle"
  /\ pc' = "for"
  /\ n' = m /\ i' = 0
  /\ num' = One /\ den' = One
  /\ UNCHANGED <<ret, out, divs, nb>>

\* Mutant of RangeHasNext: range(1, abs(n)+1), the sign of n is dropped.
RangeAbs(k, m) == k + 1 < (IF m < 0 THEN -m ELSE m) + 1

\* Mutant of RangeHasNext: range(1, n+2), one pass too many.
RangeOffByOne(k, m) == k + 1 < m + 2

\* range(1, n+1) has a value after i (after nothing, when i = 0).
RangeHasNext(k, m) == k + 1 < m + 1

\* Mutant of Tmp: 2*i*i for (2i)^2.
TmpHalved(k) == 2 * k * k

\* tmp = 4*i*i
Tmp(k) == 4 * k * k

\* Mutant of DenFactor: the -1 is forgotten, den *= tmp.
DenFactorSame(k) == Tmp(k)

\* Mutant of DenFactor: tmp+1 for tmp-1.
DenFactorPlus(k) == Tmp(k) + 1

\* tmp-1, the factor of the denominator.
DenFactor(k) == Tmp(k) - 1

\* The low 64 bits of a, what a 64-bit register keeps of it.
Low64(a) == IF Len(a) < 5 THEN a ELSE Trim(SubSeq(a, 1, 4) \o <<a[5] % 16>>)

\* Mutant of Iterate: the accumulators are 64-bit machine integers.
IterateWrap64 ==
  /\ pc = "for"
  /\ RangeHasNext(i, n)
  /\ i' = i + 1
  /\ num' = Low64(Mul(num, Big(Tmp(i'))))
  /\ den' = Low64(Mul(den, Big(DenFactor(i'))))
  /\ UNCHANGED <<pc, n, ret, out, divs, nb>>

\* Mutant of Iterate: a running ratio, divided anew in every pass.
IterateDividing ==
  /\ pc = "for"
  /\ RangeHasNext(i, n)
  /\ i' = i + 1
  /\ num' = Mul(num, Big(Tmp(i')))
  /\ den' = Mul(den, Big(DenFactor(i')))
  /\ ret' = TwoTimes(TrueDiv(num', den'))
  /\ divs' = divs + 1
  /\ UNCHANGED <<pc, n, out, nb>>

\* Mutant of Iterate: the factors are computed from the index of the pass
\* before, as if the loop ran over range(0, n).
IterateStale ==
  /\ pc = "for"
  /\ RangeHasNext(i, n)
  /\ i' = i + 1
  /\ num' = Mul(num, Big(Tmp(i)))
  /\ den' = Mul(den, Big(IF i = 0 THEN 1 ELSE DenFactor(i)))
  /\ UNCHANGED <<pc, n, ret, out, divs, nb>>

\* One pass of the loop body: tmp = 4*i*i; num *= tmp; den *= tmp-1.
Iterate ==
  /\ pc = "for"
  /\ RangeHasNext(i, n)
  /\ i' = i + 1
  /\ num' = Mul(num, Big(Tmp(i')))
  /\ den' = Mul(den, Big(DenFactor(i')))
  /\ UNCHANGED <<pc, n, ret, out, divs, nb>>

\* Mutant of LoopExit: the test of the loop is inverted.
LoopExitInverted ==
  /\ pc = "for"
  /\ RangeHasNext(i, n)
  /\ pc' = "return"
  /\ UNCHANGED <<n, i, num, den, ret, out, divs, nb>>

\* range(1, n+1) is exhausted: control reaches the return statement.
LoopExit ==
  /\ pc = "for"
  /\ ~RangeHasNext(i, n)
  /\ pc' = "return"
  /\ UNCHANGED <<n, i, num, den, ret, out, divs, nb>>

\* Mutant of Divide: the quotient is taken upside down.
DivideInverted ==
  /\ pc = "return"
  /\ ret' = TwoTimes(TrueDiv(den, num))
  /\ divs' = divs + 1
  /\ pc' = "retval"
  /\ UNCHANGED <<n, i, num, den, out, nb>>

\* The return expression 2.0*(num/den) is evaluated.
Divide ==
  /\ pc = "return"
  /\ ret' = TwoTimes(TrueDiv(num, den))
  /\ divs' = divs + 1
  /\ pc' = "retval"
  /\ UNCHANGED <<n, i, num, den, out, nb>>

\* Mutant of Return: num and den live on after the call, as globals would.
ReturnKeeping ==
  /\ pc = "retval"
  /\ out' = Append(out, [n |-> n, err |-> "none", val |-> ret])
  /\ pc' = "idle"
  /\ n' = 0 /\ i' = 0
  /\ ret' = Unset
  /\ UNCHANGED <<num, den, divs, nb>>

\* The value goes to the caller and the frame is dropped.
Return ==
  /\ pc = "retval"
  /\ out' = Append(out, [n |-> n, err |-> "none", val |-> ret])
  /\ pc' = "idle"
  /\ n' = 0 /\ i' = 0 /\ num' = Zero /\ den' = Zero
  /\ ret' = Unset
  /\ UNCHANGED <<divs, nb>>

\* A free session: any argument, MaxCalls invocations.
UserCall == Len(out) < MaxCalls /\ \E m \in Args : Call(m)

\* The notebook run from top to bottom: the next call of its cells.
CellCall == Len(out) < Len(RunAll) /\ Call(RunAll[Len(out) + 1])

Next == UserCall \/ Iterate \/ LoopExit \/ Divide \/ Return

NextNotebook == CellCall \/ Iterate \/ LoopExit \/ Divide \/ Return

Spec == Init /\ [][Next]_vars

\* The interpreter never stops in the middle of an invocation: a statement
\* that can run does run.  Whether another call is made is up to the user.
\* For Iterate and Divide weak fairness is written out, with the guard of
\* the action in the place of ENABLED: []<>~ENABLED <<A>>_vars \/ []<><<A>>_vars.
SpecLive ==
  /\ Init /\ [][Next]_vars
  /\ WF_vars(LoopExit) /\ WF_vars(Return)
  /\ ([]<>~(pc = "for" /\ RangeHasNext(i, n)) \/ []<><<Iterate>>_vars)
  /\ ([]<>~(pc = "return") \/ []<><<Divide>>_vars)

SpecNotebook == Init /\ [][NextNotebook]_vars

(***************************************************************************)
(* Exact rationals [p |-> numerator, q |-> denominator], q > 0, in which   *)
(* the properties compare the integers and the floats of the program.      *)
(***************************************************************************)
RatLess(a, b) == Less(Mul(a.p, b.q), Mul(b.p, a.q))

RatLeq(a, b) == Leq(Mul(a.p, b.q), Mul(b.p, a.q))

\* |a - b|
RatAbsDiff(a, b) ==
  LET l == Mul(a.p, b.q)
      r == Mul(b.p, a.q)
  IN [p |-> IF Less(l, r) THEN Sub(r, l) ELSE Sub(l, r), q |-> Mul(a.q, b.q)]

\* The value of a float.
FloatRat(x) ==
  IF x.e >= MantDig - 1
  THEN [p |-> ShiftLeft(x.m, x.e - (MantDig - 1)), q |-> One]
  ELSE [p |-> x.m, q |-> ShiftLeft(One, (MantDig - 1) - x.e)]

FloatLess(x, y) == RatLess(FloatRat(x), FloatRat(y))

\* x is a normal float within half a unit in the last place of the rational r.
NearestFloat(x, r) ==
  /\ BitLen(x.m) = MantDig
  /\ LET d == RatAbsDiff(FloatRat(x), r)
     IN RatLeq([p |-> Mul2(d.p, 2, 0), q |-> d.q], FloatRat([m |-> One, e |-> x.e]))

\* The natural number with the decimal digits ds, most significant first.
RECURSIVE DecTo(_, _)
DecTo(ds, k) ==
  IF k = 0 THEN Zero
  ELSE LET hd == DecTo(ds, k - 1)
       IN IF hd = Zero THEN Big(ds[k]) ELSE Add(Mul2(hd, 10, 0), Big(ds[k]))

Dec(ds) == DecTo(ds, Len(ds))

RECURSIVE Pow10(_)
Pow10(k) ==
  IF k = 0 THEN One
  ELSE LET t == Pow10(k - 1) IN IF t = Zero THEN Zero ELSE Mul2(t, 10, 0)

\* The rational with the decimal digits ds, the last k of them after the point.
DecRat(ds, k) == [p |-> Dec(ds), q |-> Pow10(k)]

\* The float a decimal numeral is read as: the nearest one.
FloatLit(ds, k) == TrueDiv(Dec(ds), Pow10(k))

FloatTwo == [m |-> ShiftLeft(One, MantDig - 1), e |-> 1]

FloatFour == [m |-> ShiftLeft(One, MantDig - 1), e |-> 2]

\* The completed invocations, by position in out.
Done == 1..Len(out)

\* An invocation is running and its locals are live.
InCall == pc \in {"for", "return", "retval"}

\* prod_{j=1..k} (2j)^2 and prod_{j=1..k} (2j-1)(2j+1), as integers.
RECURSIVE ProdNum(_)
ProdNum(k) ==
  IF k <= 0 THEN One
  ELSE LET t == ProdNum(k - 1)
       IN IF t = Zero THEN Zero ELSE Mul(Mul(t, Big(2 * k)), Big(2 * k))

RECURSIVE ProdDen(_)
ProdDen(k) ==
  IF k <= 0 THEN One
  ELSE LET t == ProdDen(k - 1)
       IN IF t = Zero THEN Zero ELSE Mul(Mul(t, Big(2 * k - 1)), Big(2 * k + 1))

\* prod_{j=lo..hi} ((2j)^2 - c) modulo a prime p < 2^15, in the integers of
\* the checker, never through a limb sequence.
RECURSIVE ProdMod(_, _, _, _)
ProdMod(c, lo, hi, p) ==
  IF lo > hi THEN 1 % p
  ELSE IF lo = hi THEN ((2 * lo) * (2 * lo) - c) % p
  ELSE LET mid == (lo + hi) \div 2
       IN (ProdMod(c, lo, mid, p) * ProdMod(c, mid + 1, hi, p)) % p

\* The residues of the accumulators are those of the two products of k factors.
ResiduesAgree(k) ==
  \A p \in {32749, 32719} :
    /\ ModSmall(num, p) = ProdMod(0, 1, k, p)
    /\ ModSmall(den, p) = ProdMod(1, 1, k, p)

\* a is a Python int >= 1: limbs in range, no leading zero limb.
IsInt(a) ==
  /\ Len(a) >= 1
  /\ \A k \in 1..Len(a) : a[k] \in 0..(BASE - 1)
  /\ a[Len(a)] # 0

\* np.pi
NpPi == FloatLit(<<3, 1, 4, 1, 5, 9, 2, 6, 5, 3, 5, 8, 9, 7, 9, 3>>, 15)

\* abs(x - np.pi) in float arithmetic: the exact difference, rounded.
Diff(x) ==
  LET d == RatAbsDiff(FloatRat(x), FloatRat(NpPi))
  IN TrueDiv(d.p, d.q)

(***************************************************************************)
(* Properties.                                                             *)
(***************************************************************************)

\* C1: when control reaches the return statement of w_pi(n), n >= 0, num is
\* exactly prod_{i=1..n} (2i)^2 and den exactly prod_{i=1..n} ((2i)^2 - 1):
\* every digit is kept, nothing is reduced modulo 2^64 (the residues modulo
\* two primes agree with the products computed independently, and from
\* n = 11 on the numerator is wider than 64 bits).
C1_ExactProducts ==
  (pc = "return" /\ n >= 0) =>
    /\ num = ProdNum(n)
    /\ den = ProdDen(n)
    /\ ResiduesAgree(n)
    /\ (n >= 11 => BitLen(num) > 64)

C1_Witness == pc = "return" /\ n >= 11 /\ i = n /\ BitLen(num) > 64

\* C2 as stated: an invocation with a negative n ends in InvalidArgument and
\* never yields a number.
C2_NegativeRaises ==
  \A k \in Done : out[k].n < 0 => out[k].err = "InvalidArgument"

\* C2, amended: an invocation with a negative n raises nothing; range(1, n+1)
\* is empty, the body never runs and the float 2.0 is returned.
C2_NegativeReturnsTwo ==
  /\ (InCall /\ n < 0) => (i = 0 /\ num = One /\ den = One)
  /\ \A k \in Done : out[k].n < 0 => (out[k].err = "none" /\ out[k].val = FloatTwo)

C2_Witness == \E k \in Done : out[k].n < 0 /\ out[k].val = FloatTwo

\* C3 as stated: for every n >= 0, n = 0 included, the result is strictly
\* between 2.0 and 4.0.
C3_StrictlyBetween ==
  \A k \in Done :
    out[k].n >= 0 => (FloatLess(FloatTwo, out[k].val) /\ FloatLess(out[k].val, FloatFour))

\* C3, amended: for every n >= 1 the result is strictly between 2.0 and 4.0;
\* for n = 0 it is exactly 2.0, the lower end itself.
C3_Between ==
  \A k \in Done :
    /\ out[k].n >= 1 =>
         (FloatLess(FloatTwo, out[k].val) /\ FloatLess(out[k].val, FloatFour))
    /\ out[k].n = 0 => out[k].val = FloatTwo

C3_Witness == \E j, k \in Done : out[j].n = 0 /\ out[k].n >= 1

C5_ZeroReturnsTwo ==
  /\ (InCall /\ n = 0) => (i = 0 /\ num = One /\ den = One)
  /\ \A k \in Done : out[k].n = 0 => (out[k].err = "none" /\ out[k].val = FloatTwo)

C5_Witness == pc = "retval" /\ n = 0 /\ num = One /\ den = One /\ ret = FloatTwo

\* C6: in w_pi(1) the numerator is 4 and the denominator 3 at the return
\* statement, and the result is 2*(4/3): the float nearest to 8/3.
C6_OneReturnsEightThirds ==
  /\ (pc \in {"return", "retval"} /\ n = 1) => (i = 1 /\ num = Big(4) /\ den = Big(3))
  /\ \A k \in Done :
       out[k].n = 1 =>
         /\ out[k].err = "none"
         /\ NearestFloat(out[k].val, [p |-> Big(8), q |-> Big(3)])

C6_Witness ==
  /\ pc = "idle"
  /\ \E k \in Done : out[k].n = 1 /\ NearestFloat(out[k].val, [p |-> Big(8), q |-> Big(3)])

\* C7: while the loop runs, and until the return expression is evaluated,
\* num and den are two integers and no float exists; the division is
\* evaluated exactly once per invocation, after the last pass of the loop.
C7_OneDivisionAfterLoop ==
  /\ divs = Len(out) + (IF pc = "retval" THEN 1 ELSE 0)
  /\ pc \in {"for", "return"} => ret = Unset
  /\ InCall => (IsInt(num) /\ IsInt(den))
  /\ pc = "retval" => (ret # Unset /\ ~RangeHasNext(i, n))

C7_Witness == pc = "retval" /\ n >= 2 /\ i = n /\ divs = Len(out) + 1 /\ Len(out) >= 1

C10_QuickTest ==
  /\ pc = "retval" =>
       /\ ResiduesAgree(n)
       /\ NearestFloat(ret, [p |-> Mul2(num, 2, 0), q |-> den])
  /\ \A k \in Done :
       (pc = "idle" /\ out[k].n = QuickN) =>
         /\ NearestFloat(out[k].val,
              DecRat(<<3, 1, 4, 0, 8, 0, 7, 7, 4, 6, 0, 3, 0, 3, 9, 4, 5>>, 16))
         /\ RatLeq(DecRat(<<3, 1, 4>>, 2), FloatRat(out[k].val))
         /\ RatLess(FloatRat(out[k].val), DecRat(<<3, 1, 5>>, 2))
         /\ RatLess(DecRat(<<3, 1, 4, 0, 5, 9, 2, 6, 5, 3, 6>>, 10), FloatRat(out[k].val))
         /\ RatLess(FloatRat(out[k].val), DecRat(<<3, 1, 4, 1, 5, 9, 2, 6, 5, 3, 5>>, 10))

C10_Witness == pc = "idle" /\ \E k \in Done : out[k].n = QuickN /\ out[k].err = "none"

\* C11: every invocation starts from num = 1 and den = 1 with the loop
\* variable unbound, whatever ran before; while it runs it changes nothing but
\* its own locals (the results already delivered and its argument stay as
\* they are); when it returns it delivers its value and nothing of its frame
\* is left.
C11_Pure ==
  [][ /\ (pc = "idle" /\ pc' # "idle") =>
           (num' = One /\ den' = One /\ i' = 0 /\ ret' = Unset /\ out' = out)
      /\ (pc # "idle" /\ pc' # "idle") => (out' = out /\ n' = n)
      /\ (pc # "idle" /\ pc' = "idle") =>
           /\ out' = Append(out, [n |-> n, err |-> "none", val |-> ret])
           /\ n' = 0 /\ i' = 0 /\ num' = Zero /\ den' = Zero /\ ret' = Unset
    ]_vars

C11_Witness == pc = "for" /\ i = 0 /\ num = One /\ den = One /\ Len(out) >= 1 /\ n >= 1

\* The accumulators of the variant of the loop that keeps num and den in
\* 64-bit registers, after k passes.
RECURSIVE WrapNum(_)
WrapNum(k) ==
  IF k <= 0 THEN One
  ELSE LET t == WrapNum(k - 1)
       IN IF t = Zero THEN Zero ELSE Low64(Mul(t, Big(4 * k * k)))

RECURSIVE WrapDen(_)
WrapDen(k) ==
  IF k <= 0 THEN One
  ELSE LET t == WrapDen(k - 1)
       IN IF t = Zero THEN Zero ELSE Low64(Mul(t, Big(4 * k * k - 1)))

\* 2^63 - 1, the largest signed 64-bit integer.
MaxInt64 == Sub(ShiftLeft(One, 63), One)

\* C18: in w_pi(n), n >= 0, the index runs through 1, 2, ..., n, one step at
\* a time; a pass multiplies num once by 4*i*i and den once by 4*i*i - 1 for
\* the index i it binds; so after k passes (0 <= k <= n) num is
\* prod_{j=1..k} 4j^2 and den is prod_{j=1..k} (4j^2 - 1), and the loop is
\* left after pass n.
C18_LoopInvariant ==
  [][ /\ (InCall /\ n >= 0) =>
           (i \in 0..n /\ num = ProdNum(i) /\ den = ProdDen(i))
      /\ (pc \in {"return", "retval"} /\ n >= 0) => i = n
      /\ (pc = "for" /\ pc' = "for" /\ n >= 0) =>
           /\ i' = i + 1
           /\ num' = Mul(num, Big(4 * i' * i'))
           /\ den' = Mul(den, Big(4 * i' * i' - 1))
    ]_vars

C18_Witness == pc = "for" /\ n = MaxN /\ i = n - 1 /\ num = ProdNum(i) /\ i >= 2

\* C20: at the return statement num is above 2^63 - 1 from n = 10 on and den
\* from n = 11 on, while 2*num/den is below 4 for every n; and from n = 11 on
\* the variant with 64-bit accumulators holds other integers and returns
\* another float than w_pi does.
C20_Beyond64Bits ==
  /\ (pc = "return" /\ n >= 10) => Less(MaxInt64, num)
  /\ (pc = "return" /\ n >= 11) => Less(MaxInt64, den)
  /\ pc = "return" => RatLess([p |-> Mul2(num, 2, 0), q |-> den], [p |-> Big(4), q |-> One])
  /\ (pc = "retval" /\ n >= 11) =>
       /\ WrapNum(n) # num
       /\ WrapDen(n) # den
       /\ TwoTimes(TrueDiv(WrapNum(n), WrapDen(n))) # ret

C20_Witness ==
  /\ pc = "retval" /\ n = 11
  /\ Less(MaxInt64, den)
  /\ FloatLess(ret, FloatFour)
  /\ TwoTimes(TrueDiv(WrapNum(n), WrapDen(n))) # ret

\* C19: for every n >= 0 an invocation w_pi(n) that has started reaches the
\* point where its return value exists, after exactly n passes of the loop,
\* and then returns to its caller.
C19_Terminates ==
  /\ [](pc = "retval" /\ n >= 0 => i = n /\ ret # Unset)
  /\ (pc = "for" /\ n >= 0) ~> (pc = "idle" /\ Len(out) >= 1 /\ out[Len(out)].err = "none")

C19_Witness == pc = "retval" /\ n = MaxN /\ i = MaxN /\ ret # Unset

(***************************************************************************)
(* The notebooks under validation.  py.test with the nbval plugin runs the *)
(* code cells of a notebook in file order and compares what a cell prints  *)
(* with the output stored in the notebook file.  A text is a sequence of   *)
(* lines and a line a sequence of tokens: a token is one character where   *)
(* the characters matter to the sanitizing regexes (digits, ':' and '/'),  *)
(* and a whole word or phrase elsewhere.                                    *)
(***************************************************************************)

Digits == <<"0", "1", "2", "3", "4", "5", "6", "7", "8", "9">>

IsDigit(c) == \E d \in 1..10 : Digits[d] = c

\* The decimal digits written least significant first.
RECURSIVE StrReversed(_)
StrReversed(k) == IF k < 10 THEN <<Digits[k + 1]>>
                  ELSE <<Digits[(k % 10) + 1]>> \o StrReversed(k \div 10)

\* str(k) of a natural number: its decimal digits.
RECURSIVE Str(_)
Str(k) == IF k < 10 THEN <<Digits[k + 1]>>
          ELSE Str(k \div 10) \o <<Digits[(k % 10) + 1]>>

\* A field printed without padding.
Pad2Bare(k) == Str(k)

\* time.strftime's two-digit fields (%H %M %S %d %m %y): zero padded.
Pad2(k) == <<Digits[(k \div 10) + 1], Digits[(k % 10) + 1]>>

\* One item of a regex: a character class repeated between lo and hi times.
\* The class "d" is \d; any other class is that literal character.
Rep(cls, lo, hi) == [cls |-> cls, lo |-> lo, hi |-> hi]

InClass(c, cls) == IF cls = "d" THEN IsDigit(c) ELSE c = cls

\* Do the c tokens of s from position pos on all belong to the class?
RunOf(s, pos, c, cls) ==
  /\ pos + c - 1 <= Len(s)
  /\ \A j \in pos..(pos + c - 1) : InClass(s[j], cls)

\* re's backtracking match of the items k.. of pat at position pos of s:
\* the position after the match, or 0 when there is none.  A repetition is
\* greedy: the longest run is tried first, then shorter ones (c counts down).
RECURSIVE MatchAt(_, _, _, _, _)
MatchAt(pat, k, s, pos, c) ==
  IF k > Len(pat) THEN pos
  ELSE IF c < pat[k].lo THEN 0
  ELSE LET r == IF RunOf(s, pos, c, pat[k].cls)
                THEN IF k = Len(pat) THEN pos + c
                     ELSE MatchAt(pat, k + 1, s, pos + c, pat[k + 1].hi)
                ELSE 0
       IN IF r # 0 THEN r ELSE MatchAt(pat, k, s, pos, c - 1)

Match(pat, s, pos) == MatchAt(pat, 1, s, pos, pat[1].hi)

\* re.sub(pat, repl, s): every non-overlapping match, leftmost first, is
\* replaced by repl; the other characters are kept.
RECURSIVE ReSub(_, _, _, _)
ReSub(pat, repl, s, pos) ==
  IF pos > Len(s) THEN <<>>
  ELSE LET e == Match(pat, s, pos)
       IN IF e # 0 THEN repl \o ReSub(pat, repl, s, e)
          ELSE <<s[pos]>> \o ReSub(pat, repl, s, pos + 1)

\* doc_sanitize.cfg, section regex1:  \d{1,2}/\d{1,2}/\d{2,4} -> DATE-STAMP
DatePat == <<Rep("d", 1, 2), Rep("/", 1, 1), Rep("d", 1, 2), Rep("/", 1, 1),
             Rep("d", 2, 4)>>

DateStamp == <<"D", "A", "T", "E", "-", "S", "T", "A", "M", "P">>

\* doc_sanitize.cfg, section regex2:  \d{2}:\d{2}:\d{2} -> TIME-STAMP
TimePat == <<Rep("d", 2, 2), Rep(":", 1, 1), Rep("d", 2, 2), Rep(":", 1, 1),
             Rep("d", 2, 2)>>

TimeStamp == <<"T", "I", "M", "E", "-", "S", "T", "A", "M", "P">>

\* The sanitizer applies the sections of the file in order to one line.
SanitizeLine(s) == ReSub(TimePat, TimeStamp, ReSub(DatePat, DateStamp, s, 1), 1)

SanitizeText(t) == [l \in 1..Len(t) |-> SanitizeLine(t[l])]

(***************************************************************************)
(* What a cell leaves behind: the lines it printed, the type of the        *)
(* exception that ended it ("" when none did) and the traceback text.      *)
(***************************************************************************)
Output(text, ename, tb) == [text |-> text, ename |-> ename, tb |-> tb]

NoOutput == Output(<<>>, "", "")

Printed(text) == Output(text, "", "")

\* The phrases the cells print, character by character where a sanitizing
\* regex could touch them.
TheTimeIs == <<"T", "h", "e", " ", "t", "i", "m", "e", " ", "i", "s", ":", " ">>

TodaysDateIs == <<"T", "o", "d", "a", "y", "'", "s", " ", "d", "a", "t", "e",
                  " ", "i", "s", ":", " ">>

\* 'The time is: ' + time.strftime('%H:%M:%S')
TimeLine(t) ==
  TheTimeIs \o Pad2(t[1]) \o <<":">> \o Pad2(t[2]) \o <<":">> \o Pad2(t[3])

\* "Today's date is: " + time.strftime('%d/%m/%y')
DateLine(d) ==
  TodaysDateIs \o Pad2(d[1]) \o <<"/">> \o Pad2(d[2]) \o <<"/">> \o Pad2(d[3])

\* The clock readings a run can see: each field sweeps its whole range
\* (hour, minute, second with its leap seconds; day, month, two-digit year)
\* while the other two stay at the stored reading.
StoredTime == <<16, 58, 19>>

StoredDate == <<23, 6, 17>>

Times ==
  {<<h, StoredTime[2], StoredTime[3]>> : h \in 0..23}
    \cup {<<StoredTime[1], m, StoredTime[3]>> : m \in 0..59}
    \cup {<<StoredTime[1], StoredTime[2], s>> : s \in 0..61}

Dates ==
  {<<d, StoredDate[2], StoredDate[3]>> : d \in 1..31}
    \cup {<<StoredDate[1], m, StoredDate[3]>> : m \in 1..12}
    \cup {<<StoredDate[1], StoredDate[2], y>> : y \in 0..99}

\* A run reads the clock once per line: any time with the stored date, any
\* date with the stored time, and the extreme readings together.
Clock ==
  {<<t, StoredDate>> : t \in Times} \cup {<<StoredTime, d>> : d \in Dates}
    \cup {<<<<0, 0, 0>>, <<1, 1, 0>>>>, <<<<23, 59, 61>>, <<31, 12, 99>>>>}

\* np.random.rand(): the lists of four floats two runs printed.
RandLists ==
  {"[0.1414192461385141, 0.1112119568805362, 0.5828182701818883, 0.7972209461690992]",
   "[0.03703472725649182, 0.6605151298230535, 0.644126394220951, 0.01229409143027227]",
   "[0.3745401188473625, 0.9507143064316503, 0.7319939418114051, 0.5986584841541221]"}

\* np.random.randint(lo, hi): an integer from lo up to, not including, hi.
Randint(lo, hi) == lo..(hi - 1)

\* The draws of randint(1, 20000) that are followed up: the ends of the
\* range and the stored draw.
StoredDraw == 1143

BigDraws == {d \in {1, StoredDraw, 19999} : 1 <= d /\ d < 20000}

\* The memory addresses in the repr of a matplotlib object.
Addresses == {"0x7f2cb3374198", "0x7f2cb564a550", "0x1066df240"}

AxesImageRepr(a) == <<"<matplotlib.image.AxesImage at ", a, ">">>

FigureRepr(a) == <<"<matplotlib.figure.Figure at ", a, ">">>

\* k times the same line.
Lines(k, l) == [j \in 1..k |-> l]

\* The traceback differs between installations; the stored one is one of
\* the texts a run can produce.
Tracebacks(stored) == {stored, "other paths"}

(***************************************************************************)
(* The code cells of the two notebooks, in file order: the markers of a    *)
(* cell, the output stored with it, and the outputs a fresh run of its     *)
(* source can give.                                                        *)
(***************************************************************************)
Books == {"doc", "wallis"}

DocMarkers ==
  <<{}, {}, {}, {}, {}, {"ignore"}, {"check"}, {"raises"}, {"raises"},
    {"ignore", "raises"}, {}, {}, {}>>

DocStored ==
  << NoOutput,
     Printed(<< <<"7">> >>),
     Printed(<< <<"[0.1414192461385141, 0.1112119568805362, 0.5828182701818883, 0.7972209461690992]">>,
                <<"[0.03703472725649182, 0.6605151298230535, 0.644126394220951, 0.01229409143027227]">> >>),
     Printed(<< <<"a line">>, <<"a line">>, <<"a line">>, <<"a line">> >>),
     Printed(<< TheTimeIs \o <<"1", "6", ":", "5", "8", ":", "1", "9">>,
                TodaysDateIs \o <<"2", "3", "/", "0", "6", "/", "1", "7">> >>),
     Printed(<< <<"This is not going to be tested">>, <<"1", "1", "4", "3">> >>),
     Printed(<< <<"This will be tested">>, <<"4", "2">> >>),
     Output(<< <<"This exception will be tested">> >>, "RuntimeError",
            "ipython-input-8"),
     Output(<< <<"If the raised exception doesn't match the stored exception, we get a failure">> >>,
            "RuntimeError", "ipython-input-11"),
     Output(<< <<"This exception will not be checked, but will not cause a failure.">> >>,
            "RuntimeError", "ipython-input-12"),
     NoOutput,
     Printed(<< AxesImageRepr("0x7f2cb3374198"), FigureRepr("0x7f2cb564a550") >>),
     Printed(<< <<"Writing doc_sanitize.cfg">> >>) >>

\* The outputs of running cell c of the documentation notebook; cfg tells
\* whether doc_sanitize.cfg exists in the folder already.
DocRun(c, cfg) ==
  CASE c = 1 -> {NoOutput}
    [] c = 2 -> {Printed(<< Str(5 + 2) >>)}
    [] c = 3 -> {Printed(<< <<a>>, <<b>> >>) : a \in RandLists, b \in RandLists}
    [] c = 4 -> {Printed(Lines(k, <<"a line">>)) : k \in Randint(1, 8)}
    [] c = 5 -> {Printed(<< TimeLine(r[1]), DateLine(r[2]) >>) : r \in Clock}
    [] c = 6 -> {Printed(<< <<"This is not going to be tested">>, Str(d) >>) :
                   d \in BigDraws}
    [] c = 7 -> {Printed(<< <<"This will be tested">>, Str(6 * 7) >>)}
    [] c = 8 -> {Output(<< <<"This exception will be tested">> >>,
                        "RuntimeError", tb) : tb \in Tracebacks("ipython-input-8")}
    [] c = 9 -> {Output(<<>>, "SyntaxError", tb) : tb \in Tracebacks("invalid syntax")}
    [] c = 10 -> {Output(<< <<"This exception will not be checked, but will not cause a failure.">> >>,
                         "RuntimeError", tb) : tb \in Tracebacks("ipython-input-12")}
    [] c = 11 -> {NoOutput}
    [] c = 12 -> {Printed(<< AxesImageRepr(ab[1]), FigureRepr(ab[2]) >>) :
                    ab \in {p \in Addresses \X Addresses : p[1] # p[2]}}
    [] c = 13 -> {Printed(<< << IF cfg THEN "Overwriting doc_sanitize.cfg"
                                ELSE "Writing doc_sanitize.cfg" >> >>)}

WallisMarkers == <<{}, {}, {}, {}>>

WallisStored ==
  << Printed(<< <<"3.141592653589793">> >>),
     NoOutput,
     Printed(<< <<"3.1408077460303945">> >>),
     Printed(<< FigureRepr("0x1066df240") >>) >>

\* The outputs of running cell c of the Wallis notebook: math.pi, the
\* definition of w_pi, w_pi(1000) and the error plot.
WallisRun(c) ==
  CASE c = 1 -> {Printed(<< <<"3.141592653589793">> >>)}
    [] c = 2 -> {NoOutput}
    [] c = 3 -> {Printed(<< <<"3.1408077460303945">> >>)}
    [] c = 4 -> {Printed(<< FigureRepr(a) >>) : a \in Addresses}

Markers(book, c) == IF book = "doc" THEN DocMarkers[c] ELSE WallisMarkers[c]

Stored(book, c) == IF book = "doc" THEN DocStored[c] ELSE WallisStored[c]

Fresh(book, c, cfg) == IF book = "doc" THEN DocRun(c, cfg) ELSE WallisRun(c)

NumCells(book) == IF book = "doc" THEN Len(DocMarkers) ELSE Len(WallisMarkers)

(***************************************************************************)
(* The plugin's rules, as the documentation notebook states them.          *)
(***************************************************************************)
Modes == {"lax", "strict"}

Errored(o) == o.ename # ""

\* A comparison that the mode does not control.
ComparedAlways(mode, markers) == "ignore" \notin markers

\* Is the output of a cell with these markers compared?  Under --nbval-lax
\* only with the check-output marker, under --nbval unless the
\* ignore-output marker is there.
Compared(mode, markers) ==
  \/ "check" \in markers
  \/ mode = "strict" /\ "ignore" \notin markers

\* What of an output is compared: the (sanitized) text and the error type,
\* never the traceback.
Canon(o, sanitize) ==
  [text |-> IF sanitize THEN SanitizeText(o.text) ELSE o.text, ename |-> o.ename]

\* A comparison of the first line only.
SameOutputFirstLine(a, b, sanitize) ==
  /\ a.ename = b.ename
  /\ (Len(a.text) = 0) = (Len(b.text) = 0)
  /\ Len(a.text) > 0 => Canon(a, sanitize).text[1] = Canon(b, sanitize).text[1]

\* A comparison that takes the traceback in.
SameOutputWithTraceback(a, b, sanitize) ==
  Canon(a, sanitize) = Canon(b, sanitize) /\ a.tb = b.tb

SameOutput(a, b, sanitize) == Canon(a, sanitize) = Canon(b, sanitize)

\* A run-without-errors check that knows no raises-exception marker.
VerdictNoRaises(mode, sanitize, markers, stored, o) ==
  IF Errored(o) THEN "fail"
  ELSE IF Compared(mode, markers) /\ ~SameOutput(stored, o, sanitize) THEN "fail"
  ELSE "pass"

\* The test of one cell: an error fails it unless the cell is marked as
\* raising, and a compared output that differs from the stored one fails it.
Verdict(mode, sanitize, markers, stored, o) ==
  IF Errored(o) /\ "raises" \notin markers THEN "fail"
  ELSE IF Compared(mode, markers) /\ ~SameOutput(stored, o, sanitize) THEN "fail"
  ELSE "pass"

\* py.test starts on a notebook with one of the two options, with or
\* without --sanitize-with doc_sanitize.cfg.
NbStart(mode, sanitize, book, cfg) ==
  /\ nb.phase = "off"
  /\ nb' = [phase |-> "exec", mode |-> mode, sanitize |-> sanitize,
            book |-> book, cfg |-> cfg, cell |-> 1, run |-> NoOutput,
            verdicts |-> <<>>]
  /\ UNCHANGED wvars

\* The kernel runs the next cell.
NbRunCell ==
  /\ nb.phase = "exec"
  /\ \E o \in Fresh(nb.book, nb.cell, nb.cfg) :
       nb' = [nb EXCEPT !.phase = "compare", !.run = o,
                        !.cfg = @ \/ (nb.book = "doc" /\ nb.cell = NumCells("doc"))]
  /\ UNCHANGED wvars

\* The cell's test is decided.
NbCompare ==
  /\ nb.phase = "compare"
  /\ nb' = [nb EXCEPT
              !.verdicts = Append(@, Verdict(nb.mode, nb.sanitize,
                                             Markers(nb.book, nb.cell),
                                             Stored(nb.book, nb.cell), nb.run)),
              !.phase = "judged"]
  /\ UNCHANGED wvars

\* py.test moves on to the next cell, or ends after the last one.
NbAdvance ==
  /\ nb.phase = "judged"
  /\ nb' = [nb EXCEPT
              !.run = NoOutput,
              !.cell = IF nb.cell = NumCells(nb.book) THEN @ ELSE @ + 1,
              !.phase = IF nb.cell = NumCells(nb.book) THEN "done" ELSE "exec"]
  /\ UNCHANGED wvars

NextNbval ==
  \/ \E mode \in Modes, sanitize \in BOOLEAN, book \in Books, cfg \in BOOLEAN :
       NbStart(mode, sanitize, book, cfg)
  \/ NbRunCell
  \/ NbCompare
  \/ NbAdvance

SpecNbval == Init /\ [][NextNbval]_vars

(***************************************************************************)
(* Properties of the validation runs.                                      *)
(***************************************************************************)

\* A fresh output reproduces the stored one in the sense of the notebooks'
\* expectation: nothing printed, or the same output, or an exception of the
\* stored type.
Reproduces(o, st) ==
  \/ o.text = <<>> /\ ~Errored(o)
  \/ o.text = st.text /\ o.ename = st.ename
  \/ Errored(o) /\ o.ename = st.ename

\* The cells whose source reads no random number, clock, memory address or
\* folder content, and is not the deliberately mismatching cell.
Deterministic(book) == IF book = "doc" THEN {1, 2, 7, 8, 10, 11} ELSE {1, 2, 3}

\* C12 as stated: every code cell of the notebooks, on every run, produces
\* no output, or the stored output, or raises an exception of the stored
\* type.
C12_EveryCellReproduces ==
  nb.phase = "compare" => Reproduces(nb.run, Stored(nb.book, nb.cell))

\* C12 amended: that holds of the cells that read no random number, clock,
\* memory address or folder content and are not the cell with the syntax
\* error; each of the other cells has a run that differs from its stored
\* output.
C12_DeterministicCellsReproduce ==
  /\ (nb.phase = "compare" /\ nb.cell \in Deterministic(nb.book)) =>
        Reproduces(nb.run, Stored(nb.book, nb.cell))
  /\ (nb.phase = "exec" /\ nb.cell \notin Deterministic(nb.book)) =>
        \E cfg \in BOOLEAN : \E o \in Fresh(nb.book, nb.cell, cfg) :
          ~Reproduces(o, Stored(nb.book, nb.cell))

C12_Witness ==
  /\ nb.phase = "compare" /\ nb.book = "doc" /\ nb.cell = 7
  /\ nb.run.text = DocStored[7].text
  /\ Len(nb.verdicts) = 6

\* The verdict on the cell that was judged last.
LastVerdict == nb.verdicts[Len(nb.verdicts)]

\* Every cell is run, in file order: at each stage the verdicts are those of
\* the cells before the current one (and of the current one once judged).
EveryCellRun ==
  /\ nb.phase \in {"exec", "compare"} => Len(nb.verdicts) = nb.cell - 1
  /\ nb.phase = "judged" => Len(nb.verdicts) = nb.cell
  /\ nb.phase = "done" => Len(nb.verdicts) = NumCells(nb.book)

\* The comparison the option and the markers ask for finds a difference.
MismatchSeen ==
  /\ IF nb.mode = "lax" THEN "check" \in Markers(nb.book, nb.cell)
                        ELSE "ignore" \notin Markers(nb.book, nb.cell)
  /\ \/ (IF nb.sanitize THEN SanitizeText(nb.run.text) ELSE nb.run.text)
          # (IF nb.sanitize THEN SanitizeText(Stored(nb.book, nb.cell).text)
                            ELSE Stored(nb.book, nb.cell).text)
     \/ nb.run.ename # Stored(nb.book, nb.cell).ename

RaisedAsMarked ==
  /\ nb.phase = "judged"
  /\ "raises" \in Markers(nb.book, nb.cell)
  /\ Errored(nb.run)

\* The printed text of the run equals the stored text, after sanitizing when
\* a sanitize file is in use.
SameText ==
  (IF nb.sanitize THEN SanitizeText(nb.run.text) ELSE nb.run.text)
    = (IF nb.sanitize THEN SanitizeText(Stored(nb.book, nb.cell).text)
                      ELSE Stored(nb.book, nb.cell).text)

\* The option and the markers of the judged cell ask for a comparison.
OutputChecked ==
  IF nb.mode = "lax" THEN "check" \in Markers(nb.book, nb.cell)
                     ELSE "ignore" \notin Markers(nb.book, nb.cell)

\* C14 as stated: for a cell marked NBVAL_RAISES_EXCEPTION that raises, the
\* raised type is compared with the stored type: a differing type fails the
\* cell, an equal type with the same text passes whatever the traceback;
\* when the cell is also marked NBVAL_IGNORE_OUTPUT it passes and the type
\* is not checked.
C14_RaisedTypeCompared ==
  RaisedAsMarked =>
    IF "ignore" \in Markers(nb.book, nb.cell) THEN LastVerdict = "pass"
    ELSE /\ nb.run.ename # Stored(nb.book, nb.cell).ename => LastVerdict = "fail"
         /\ (nb.run.ename = Stored(nb.book, nb.cell).ename /\ SameText) =>
              LastVerdict = "pass"

\* C14 amended: the raised type is compared with the stored type where the
\* cell's output is compared (under --nbval, or with the check-output
\* marker); where it is not compared (under --nbval-lax without that marker,
\* or with NBVAL_IGNORE_OUTPUT) the cell passes and the type is not checked.
\* The traceback is never compared.
C14_RaisedTypeComparedWhenChecked ==
  RaisedAsMarked =>
    IF ~OutputChecked THEN LastVerdict = "pass"
    ELSE /\ nb.run.ename # Stored(nb.book, nb.cell).ename => LastVerdict = "fail"
         /\ (nb.run.ename = Stored(nb.book, nb.cell).ename /\ SameText) =>
              LastVerdict = "pass"

C14_Witness ==
  /\ RaisedAsMarked /\ nb.mode = "strict" /\ nb.cell = 8
  /\ nb.run.ename = "RuntimeError"
  /\ nb.run.tb # Stored(nb.book, nb.cell).tb
  /\ LastVerdict = "pass"
  /\ \E j \in 1..7 : nb.verdicts[j] = "fail"

\* C15: the documentation notebook run in file order under --nbval-lax has
\* no failing cell: each cell that raises is marked as expected to raise,
\* the check-output cell is the only one compared, and it prints its stored
\* output on every run.
C15_LaxRunPasses ==
  (nb.book = "doc" /\ nb.mode = "lax") =>
    /\ EveryCellRun
    /\ \A j \in 1..Len(nb.verdicts) : nb.verdicts[j] = "pass"
    /\ (nb.phase = "compare" /\ Errored(nb.run)) => "raises" \in DocMarkers[nb.cell]
    /\ nb.phase = "compare" =>
         /\ ("check" \in DocMarkers[nb.cell]) <=> (nb.cell = 7)
         /\ nb.cell = 7 => (nb.run.text = DocStored[7].text /\ ~Errored(nb.run))

C15_Witness ==
  /\ nb.phase = "done" /\ nb.book = "doc" /\ nb.mode = "lax"
  /\ Len(nb.verdicts) = Len(DocMarkers)
  /\ \A j \in 1..Len(nb.verdicts) : nb.verdicts[j] = "pass"

\* The time-and-date cell of the documentation notebook.
TimeCell == 5

\* What the sanitizer leaves of the time-and-date cell's output.
Stamped == << TheTimeIs \o TimeStamp, TodaysDateIs \o DateStamp >>

\* C16: whatever the time of day and the date, the two replacements of
\* doc_sanitize.cfg turn the output of the time-and-date cell into the same
\* text, which is also the sanitized stored output, so that with the
\* sanitize file in use the cell's comparison passes.
C16_SanitizedTimeCellStable ==
  (nb.book = "doc" /\ nb.cell = TimeCell) =>
    /\ nb.phase \in {"compare", "judged"} =>
         /\ SanitizeText(nb.run.text) = Stamped
         /\ SanitizeText(nb.run.text) = SanitizeText(DocStored[TimeCell].text)
    /\ (nb.phase = "judged" /\ nb.sanitize) => LastVerdict = "pass"

C16_Witness ==
  /\ nb.phase = "judged" /\ nb.book = "doc" /\ nb.cell = TimeCell
  /\ nb.sanitize /\ nb.mode = "strict"
  /\ nb.run.text[1] # DocStored[TimeCell].text[1]
  /\ LastVerdict = "pass"

\* The cell of the documentation notebook with the random number of lines,
\* and the number of lines stored with it.
LinesCell == 4

\* The judged cell is the random line-count cell under --nbval.
LinesCellJudged ==
  /\ nb.phase = "judged" /\ nb.book = "doc" /\ nb.cell = LinesCell
  /\ nb.mode = "strict"

C22_NegativeActsAsZero ==
  [][ /\ (pc = "for" /\ n < 0) =>
           (pc' = "return" /\ i' = 0 /\ num' = One /\ den' = One /\ n' = n)
      /\ (pc = "return" /\ n < 0) =>
           (pc' = "retval" /\ ret' = TwoTimes(TrueDiv(One, One)))
      /\ \A k \in Done : \A j \in Done :
           (out[k].n < 0 /\ out[j].n = 0) =>
              (out[k].err = out[j].err /\ out[k].val = out[j].val)
    ]_vars

C22_Witness ==
  /\ Len(out) = 2
  /\ out[1].n = 0 /\ out[2].n = -MaxNeg
  /\ out[1].val = out[2].val /\ out[2].val # Unset

\* An integer is odd: its lowest limb is.
IsOdd(a) == Len(a) >= 1 /\ a[1] % 2 = 1

\* C23: while a call of w_pi is running (the accumulators exist only then),
\* whatever n, the denominator is odd and 1 <= den <= num, with den < num
\* once a pass of the loop has run; so the division at the return statement
\* has a nonzero divisor, its quotient num/den is not below 1 and the
\* returned float not below 2.0.
C23_DenominatorOddBelowNumerator ==
  /\ InCall =>
       /\ IsOdd(den)
       /\ Leq(One, den)
       /\ Leq(den, num)
       /\ i >= 1 => Less(den, num)
       /\ i = 0 => (num = One /\ den = One)
  /\ pc = "return" => den # Zero
  /\ pc = "retval" =>
       /\ ~FloatLess(TrueDiv(num, den), TrueDiv(One, One))
       /\ ~FloatLess(ret, FloatTwo)

C23_Witness ==
  /\ pc = "retval" /\ n = MaxN /\ i = n
  /\ IsOdd(den) /\ Less(den, num)
  /\ FloatLess(FloatTwo, ret)

(***************************************************************************)
(* The running-ratio strategy: ratio = 1, then ratio *= term/(term-1) for  *)
(* term = 4*1*1, 4*2*2, ...  In exact arithmetic the ratio is a fraction   *)
(* p/q kept in lowest terms, as a rational number type keeps it.           *)
(***************************************************************************)

\* The term of pass k of the product.
Term(k) == (2 * k) * (2 * k)

\* Euclid's algorithm on machine-size naturals.
RECURSIVE GcdSmall(_, _)
GcdSmall(a, b) == IF b = 0 THEN a ELSE GcdSmall(b, a % b)

\* The limbs 1..k of the quotient of a by d (0 < d < BASE), r being the
\* remainder carried down from the limbs above k.
RECURSIVE DivSmallAt(_, _, _, _)
DivSmallAt(a, d, k, r) ==
  IF k = 0 THEN <<>>
  ELSE LET cur == r * BASE + a[k]
       IN DivSmallAt(a, d, k - 1, cur % d) \o <<cur \div d>>

DivSmall(a, d) == Trim(DivSmallAt(a, d, Len(a), 0))

\* ratio *= t/(t-1), cancelling the common factors of p with t-1 and of q
\* with t (t and t-1 have none).
RatioStep(r, t) ==
  LET g1 == GcdSmall(t - 1, ModSmall(r.p, t - 1))
      g2 == GcdSmall(t, ModSmall(r.q, t))
  IN [p |-> Mul(DivSmall(r.p, g1), Big(t \div g2)),
      q |-> Mul(DivSmall(r.q, g2), Big((t - 1) \div g1))]

\* The ratio after k passes.
RECURSIVE Ratio(_)
Ratio(k) ==
  IF k = 0 THEN [p |-> One, q |-> One]
  ELSE LET r == Ratio(k - 1)
       IN IF r.p = Zero THEN r ELSE RatioStep(r, Term(k))

\* One invocation of w_pi, with any argument, in a fresh session: the run
\* the two strategies are compared on.
SingleCall == Len(out) = 0 /\ \E m \in Args : Call(m)

NextSingle ==
  \/ SingleCall
  \/ Iterate
  \/ LoopExit
  \/ Divide
  \/ Return

SpecSingle == Init /\ [][NextSingle]_vars

\* C21: run side by side with w_pi for an n >= 0, the running ratio equals
\* num/den after every pass (ratio.p * den = ratio.q * num), it is 1 before
\* the first, and the value returned from it, 2.0*(p/q), is the value w_pi
\* returns.
C21_RatioEqualsAccumulators ==
  /\ (InCall /\ n >= 0) =>
       LET r == Ratio(i)
       IN /\ Mul(r.p, den) = Mul(r.q, num)
          /\ i = 0 => r = [p |-> num, q |-> den]
          /\ pc = "retval" => ret = TwoTimes(TrueDiv(r.p, r.q))

C21_Witness ==
  /\ pc = "retval" /\ n = MaxN
  /\ Ratio(n).p # num /\ Less(Ratio(n).p, num)
  /\ Mul(Ratio(n).p, den) = Mul(Ratio(n).q, num)
  /\ ret = TwoTimes(TrueDiv(Ratio(n).p, Ratio(n).q))

====
